---- MODULE Spec2Model ----
(***************************************************************************)
(* Model of the photo upload server (src/server.js).                       *)
(*                                                                         *)
(* The server is a single Node.js process.  A request handler runs without *)
(* interruption from one await to the next, so every action below is one   *)
(* such run-to-await segment of POST /api/upload-photos: the code between  *)
(* two awaits, together with the outcome of the remote call that ended the *)
(* wait.  Several requests are in flight at once and interleave at these   *)
(* points only.                                                            *)
(*                                                                         *)
(* Date.now() is the wall clock in milliseconds.  Nothing in the code ties *)
(* the duration of a remote call to it, so the clock advances by its own   *)
(* action (Tick) and any number of segments may run within one tick.       *)
(***************************************************************************)
EXTENDS Integers, Sequences, FiniteSets, TLC

\* ---------------------------------------------------------------- bounds
NumReqs  == 2      \* upload requests the server receives
MaxFiles == 2      \* files per request in the model (the route allows 10)
MaxClock == 1      \* last value of the millisecond clock

\* ------------------------------------------------------ program constants
FileSizeLimit == 10 * 1024 * 1024     \* multer limits.fileSize

Reqs   == 1..NumReqs
Clock  == 0..MaxClock
\* sizes on both sides of the limit
Sizes  == {1, FileSizeLimit + 1}
\* the file lists a request may carry (req.files in upload order, by size)
Batches == UNION {[1..n -> Sizes] : n \in 0..MaxFiles}

\* the original names a file may carry
Names   == 1..MaxFiles

NoId     == -1     \* uploadId not yet taken
NullLink == 0      \* folderLink: null
NoResp   == [status |-> 0, json |-> FALSE, success |-> FALSE,
             uploadId |-> NoId, folderLink |-> NullLink, count |-> 0]

VARIABLES
  now,            \* Date.now()
  files,          \* files[r]: req.files of request r, by size (<<>> before)
  pc,             \* pc[r]: where request r is ("pending": not yet received)
  uploadId,       \* uploadId[r]: the handler's const uploadId
  folder,         \* folder[r]: the handler's const folder (its link), 0 before
  idx,            \* idx[r]: the loop variable i
  uploadProgress, \* the Map: a function from the keys present to records
  resp,           \* resp[r]: the response sent for request r
  folderCalls,    \* folderCalls[r]: drive.files.create calls for a folder
  permCalls,      \* permCalls[r]: drive.permissions.create calls
  uploadCalls,    \* uploadCalls[r]: file indices (0-based) whose upload was issued
  remoteFiles,    \* remoteFiles[r]: file indices stored in the remote folder
  paths,          \* paths[r]: file.path of each of r's files, in upload order
  disk,           \* the temp files present in ./uploads
  readable,       \* readable[r]: the read stream of the call in flight found its file
  polled,         \* the last answer of GET /api/upload-progress/:uploadId
  publicFolders   \* the remote folders readable by anyone with the link

vars == <<now, files, pc, uploadId, folder, idx, uploadProgress, resp,
          folderCalls, permCalls, uploadCalls, remoteFiles, paths, disk,
          readable, polled, publicFolders>>

\* ------------------------------------------------------------ Map helpers
MapHas(m, k) == k \in DOMAIN m

MapSet(m, k, v) == [x \in (DOMAIN m) \cup {k} |-> IF x = k THEN v ELSE m[x]]

EmptyMap == [x \in {} |-> 0]

NoRecord == [total |-> 0, completed |-> 0, folderLink |-> NullLink,
             status |-> "none"]

NoPoll == [id |-> NoId, status |-> 0, error |-> "", record |-> NoRecord]

\* variant: the lookup result is sent without the not-found check
GetProgressNoCheck(k) ==
  [id |-> k, status |-> 200, error |-> "",
   record |-> IF MapHas(uploadProgress, k) THEN uploadProgress[k] ELSE NoRecord]

\* GET /api/upload-progress/:uploadId: the answer for key k
GetProgress(k) ==
  IF MapHas(uploadProgress, k)
    THEN [id |-> k, status |-> 200, error |-> "", record |-> uploadProgress[k]]
    ELSE [id |-> k, status |-> 404, error |-> "Upload not found",
          record |-> NoRecord]

\* ----------------------------------------------------------------- multer
\* lines 101-103: the temp file name, Date.now() + '-' + file.originalname.
\* The timestamp has no '-', so the string determines the pair and the pair
\* stands for it; the files of a batch are stored in the millisecond in
\* which the batch is handed to the route.
TempName(t, name) == <<t, name>>

\* a file is over the limit of limits.fileSize
ExceedsLimit(size) == size > FileSizeLimit

Oversized(fs) == \E j \in 1..Len(fs) : ExceedsLimit(fs[j])

EmptyBatch(fs) == Len(fs) = 0

\* Requests are numbered in the order the server receives them.
Arrives(r, fs) ==
  /\ pc[r] = "pending"
  /\ \A q \in Reqs : q < r => pc[q] # "pending"
  /\ fs \in Batches
  /\ files' = [files EXCEPT ![r] = fs]

Init ==
  /\ now = 0
  /\ files = [r \in Reqs |-> <<>>]
  /\ pc = [r \in Reqs |-> "pending"]
  /\ uploadId = [r \in Reqs |-> NoId]
  /\ folder = [r \in Reqs |-> NullLink]
  /\ idx = [r \in Reqs |-> 0]
  /\ uploadProgress = EmptyMap
  /\ resp = [r \in Reqs |-> NoResp]
  /\ folderCalls = [r \in Reqs |-> 0]
  /\ permCalls = [r \in Reqs |-> 0]
  /\ uploadCalls = [r \in Reqs |-> <<>>]
  /\ remoteFiles = [r \in Reqs |-> {}]
  /\ paths = [r \in Reqs |-> <<>>]
  /\ disk = {}
  /\ readable = [r \in Reqs |-> FALSE]
  /\ polled = NoPoll
  /\ publicFolders = {}

\* the millisecond clock advances
Tick ==
  /\ now < MaxClock
  /\ now' = now + 1
  /\ UNCHANGED <<files, pc, uploadId, folder, idx, uploadProgress, resp,
                 folderCalls, permCalls, uploadCalls, remoteFiles, paths, disk,
                 readable, polled,
                 publicFolders>>

\* ------------------------------------------------------------- responses
Resp400 == [NoResp EXCEPT !.status = 400, !.json = TRUE]

Resp500 == [NoResp EXCEPT !.status = 500, !.json = TRUE]

\* Express' default error handler: the error carries no status, the body is HTML
RespDefaultError == [NoResp EXCEPT !.status = 500, !.json = FALSE]

Resp200(id, link, n) == [status |-> 200, json |-> TRUE, success |-> TRUE,
                         uploadId |-> id, folderLink |-> link, count |-> n]

\* ------------------------------------------- POST /api/upload-photos
\* variant: no fileSize limit is configured, the handler runs on any batch
MulterNoLimit(r, fs) ==
  /\ Arrives(r, fs)
  /\ Oversized(fs)
  /\ uploadId' = [uploadId EXCEPT ![r] = now]
  /\ uploadProgress' = MapSet(uploadProgress, now,
         [total |-> Len(fs), completed |-> 0,
          folderLink |-> NullLink, status |-> "uploading"])
  /\ \E ns \in [1..Len(fs) -> Names] :
       /\ paths' = [paths EXCEPT ![r] = [j \in 1..Len(fs) |-> TempName(now, ns[j])]]
       /\ disk' = disk \cup {TempName(now, ns[j]) : j \in 1..Len(fs)}
  /\ folderCalls' = [folderCalls EXCEPT ![r] = @ + 1]
  /\ pc' = [pc EXCEPT ![r] = "createFolder"]
  /\ UNCHANGED <<now, folder, idx, resp, permCalls, uploadCalls,
                 remoteFiles, readable, polled,
                 publicFolders>>

\* upload.array('photos', 10) with limits.fileSize: a file over the limit
\* makes multer pass an error to next(); the route handler never runs and,
\* no error middleware being registered, Express' default handler answers.
MulterReject(r, fs) ==
  /\ Arrives(r, fs)
  /\ Oversized(fs)
  /\ pc' = [pc EXCEPT ![r] = "rejected"]
  /\ resp' = [resp EXCEPT ![r] = RespDefaultError]
  /\ UNCHANGED <<now, uploadId, folder, idx, uploadProgress,
                 folderCalls, permCalls, uploadCalls, remoteFiles, paths, disk,
                 readable, polled,
                 publicFolders>>

\* variant: the empty check placed after the progress initialisation
HandlerEmptyLate(r, fs) ==
  /\ Arrives(r, fs)
  /\ ~Oversized(fs)
  /\ EmptyBatch(fs)
  /\ uploadId' = [uploadId EXCEPT ![r] = now]
  /\ uploadProgress' = MapSet(uploadProgress, now,
         [total |-> Len(fs), completed |-> 0,
          folderLink |-> NullLink, status |-> "uploading"])
  /\ pc' = [pc EXCEPT ![r] = "sent400"]
  /\ resp' = [resp EXCEPT ![r] = Resp400]
  /\ UNCHANGED <<now, folder, idx,
                 folderCalls, permCalls, uploadCalls, remoteFiles, paths, disk,
                 readable, polled,
                 publicFolders>>

\* lines 114-120: no files (req.files missing or of length 0), answer 400
HandlerEmpty(r, fs) ==
  /\ Arrives(r, fs)
  /\ ~Oversized(fs)
  /\ EmptyBatch(fs)
  /\ uploadId' = [uploadId EXCEPT ![r] = now]
  /\ pc' = [pc EXCEPT ![r] = "sent400"]
  /\ resp' = [resp EXCEPT ![r] = Resp400]
  /\ UNCHANGED <<now, folder, idx, uploadProgress,
                 folderCalls, permCalls, uploadCalls, remoteFiles, paths, disk,
                 readable, polled,
                 publicFolders>>

\* lines 116-131: take the identifier from the clock, store the initial
\* record under it and issue the folder creation call
BeginUpload(r, fs) ==
  /\ uploadId' = [uploadId EXCEPT ![r] = now]
  /\ uploadProgress' = MapSet(uploadProgress, now,
         [total |-> Len(fs), completed |-> 0,
          folderLink |-> NullLink, status |-> "uploading"])
  /\ \E ns \in [1..Len(fs) -> Names] :
       /\ paths' = [paths EXCEPT ![r] = [j \in 1..Len(fs) |-> TempName(now, ns[j])]]
       /\ disk' = disk \cup {TempName(now, ns[j]) : j \in 1..Len(fs)}
  /\ folderCalls' = [folderCalls EXCEPT ![r] = @ + 1]
  /\ pc' = [pc EXCEPT ![r] = "createFolder"]
  /\ UNCHANGED <<now, folder, idx, resp, permCalls, uploadCalls,
                 remoteFiles, readable, polled,
                 publicFolders>>

HandlerStart(r, fs) ==
  /\ Arrives(r, fs)
  /\ ~Oversized(fs)
  /\ ~EmptyBatch(fs)
  /\ BeginUpload(r, fs)

\* variant: the catch removes the record of the failed request
CatchErrorCleanup(r) ==
  /\ pc' = [pc EXCEPT ![r] = "sent500"]
  /\ resp' = [resp EXCEPT ![r] = Resp500]
  /\ uploadProgress' = [k \in (DOMAIN uploadProgress) \ {uploadId[r]} |->
                          uploadProgress[k]]
  /\ UNCHANGED <<now, files, uploadId, folder, idx,
                 folderCalls, permCalls, uploadCalls, remoteFiles, paths, disk,
                 readable, polled,
                 publicFolders>>

\* lines 167-170: the outer catch
CatchError(r) ==
  /\ pc' = [pc EXCEPT ![r] = "sent500"]
  /\ resp' = [resp EXCEPT ![r] = Resp500]
  /\ UNCHANGED <<now, files, uploadId, folder, idx, uploadProgress,
                 folderCalls, permCalls, uploadCalls, remoteFiles, paths, disk,
                 readable, polled,
                 publicFolders>>

\* lines 47-53: the folder exists, issue the permission grant
FolderCreateOk(r) ==
  /\ pc[r] = "createFolder"
  /\ folder' = [folder EXCEPT ![r] = r]
  /\ permCalls' = [permCalls EXCEPT ![r] = @ + 1]
  /\ pc' = [pc EXCEPT ![r] = "permission"]
  /\ UNCHANGED <<now, files, uploadId, idx, uploadProgress, resp,
                 folderCalls, uploadCalls, remoteFiles, paths, disk,
                 readable, polled,
                 publicFolders>>

FolderCreateFail(r) ==
  /\ pc[r] = "createFolder"
  /\ CatchError(r)

\* variant: the uploads of a batch are all issued at once and awaited together
LoopFromAllAtOnce(r, i, prog, dsk) ==
  /\ idx' = [idx EXCEPT ![r] = i]
  /\ IF i < Len(files[r])
       THEN /\ uploadCalls' = [uploadCalls EXCEPT ![r] =
                   IF i = 0 THEN [j \in 1..Len(files[r]) |-> j - 1] ELSE @]
            /\ readable' = [readable EXCEPT ![r] = paths[r][i + 1] \in dsk]
            /\ pc' = [pc EXCEPT ![r] = "upload"]
            /\ uploadProgress' = prog
            /\ resp' = resp
       ELSE /\ uploadProgress' = MapSet(prog, uploadId[r],
                   [prog[uploadId[r]] EXCEPT !.status = "completed"])
            /\ resp' = [resp EXCEPT ![r] =
                   Resp200(uploadId[r], folder[r], Len(files[r]))]
            /\ pc' = [pc EXCEPT ![r] = "sent200"]
            /\ uploadCalls' = uploadCalls
            /\ readable' = readable

\* variant: the record is marked complete only when no file of the batch failed
LoopFromStrict(r, i, prog, dsk) ==
  /\ idx' = [idx EXCEPT ![r] = i]
  /\ IF i < Len(files[r])
       THEN /\ uploadCalls' = [uploadCalls EXCEPT ![r] = Append(@, i)]
            /\ readable' = [readable EXCEPT ![r] = paths[r][i + 1] \in dsk]
            /\ pc' = [pc EXCEPT ![r] = "upload"]
            /\ uploadProgress' = prog
            /\ resp' = resp
       ELSE /\ uploadProgress' =
                   IF prog[uploadId[r]].completed = prog[uploadId[r]].total
                     THEN MapSet(prog, uploadId[r],
                            [prog[uploadId[r]] EXCEPT !.status = "completed"])
                     ELSE prog
            /\ resp' = [resp EXCEPT ![r] =
                   Resp200(uploadId[r], folder[r], Len(files[r]))]
            /\ pc' = [pc EXCEPT ![r] = "sent200"]
            /\ uploadCalls' = uploadCalls
            /\ readable' = readable

\* lines 140-165 from loop index i on, prog being the Map and dsk the temp
\* directory so far: either issue the upload of files[i] (line 77 opens the
\* read stream on its path) or mark the record complete and answer 200
LoopFrom(r, i, prog, dsk) ==
  /\ idx' = [idx EXCEPT ![r] = i]
  /\ IF i < Len(files[r])
       THEN /\ uploadCalls' = [uploadCalls EXCEPT ![r] = Append(@, i)]
            /\ readable' = [readable EXCEPT ![r] = paths[r][i + 1] \in dsk]
            /\ pc' = [pc EXCEPT ![r] = "upload"]
            /\ uploadProgress' = prog
            /\ resp' = resp
       ELSE /\ uploadProgress' = MapSet(prog, uploadId[r],
                   [prog[uploadId[r]] EXCEPT !.status = "completed"])
            /\ resp' = [resp EXCEPT ![r] =
                   Resp200(uploadId[r], folder[r], Len(files[r]))]
            /\ pc' = [pc EXCEPT ![r] = "sent200"]
            /\ uploadCalls' = uploadCalls
            /\ readable' = readable

\* lines 53-66, 131-140: the folder is readable, store its link, enter the loop
PermissionOk(r) ==
  /\ pc[r] = "permission"
  /\ publicFolders' = publicFolders \cup {folder[r]}
  /\ LoopFrom(r, 0, MapSet(uploadProgress, uploadId[r],
         [uploadProgress[uploadId[r]] EXCEPT !.folderLink = folder[r]]), disk)
  /\ UNCHANGED <<now, files, uploadId, folder, folderCalls, permCalls,
                 remoteFiles, paths, disk, polled>>

\* variant: a failed permission grant is ignored and the uploads go on
PermissionFailIgnored(r) ==
  /\ pc[r] = "permission"
  /\ LoopFrom(r, 0, MapSet(uploadProgress, uploadId[r],
         [uploadProgress[uploadId[r]] EXCEPT !.folderLink = folder[r]]), disk)
  /\ UNCHANGED <<now, files, uploadId, folder, folderCalls, permCalls,
                 remoteFiles, paths, disk, polled, publicFolders>>

PermissionFail(r) ==
  /\ pc[r] = "permission"
  /\ CatchError(r)

\* line 146: the value stored in progress.completed after files[i] is uploaded
CompletedAfter(i, progress) == i + 1

\* the path of the file whose upload is in flight
CurrentPath(r) == paths[r][idx[r] + 1]

\* lines 80-90, 143-152: the upload of files[i] succeeded; its temp file is
\* unlinked and the record updated
UploadOk(r) ==
  /\ pc[r] = "upload"
  /\ readable[r]
  /\ CurrentPath(r) \in disk
  /\ remoteFiles' = [remoteFiles EXCEPT ![r] = @ \cup {idx[r]}]
  /\ disk' = disk \ {CurrentPath(r)}
  /\ LoopFrom(r, idx[r] + 1, MapSet(uploadProgress, uploadId[r],
         [uploadProgress[uploadId[r]] EXCEPT
            !.completed = CompletedAfter(idx[r], uploadProgress[uploadId[r]])]),
         disk \ {CurrentPath(r)})
  /\ UNCHANGED <<now, files, uploadId, folder, folderCalls, permCalls,
                 paths, polled,
                 publicFolders>>

\* lines 80-87, 149-152: the upload of files[i] succeeded but its temp file
\* is gone; unlinkSync throws, the inner catch logs it and the loop goes on
UploadOkUnlinkThrows(r) ==
  /\ pc[r] = "upload"
  /\ readable[r]
  /\ CurrentPath(r) \notin disk
  /\ remoteFiles' = [remoteFiles EXCEPT ![r] = @ \cup {idx[r]}]
  /\ LoopFrom(r, idx[r] + 1, uploadProgress, disk)
  /\ UNCHANGED <<now, files, uploadId, folder, folderCalls, permCalls,
                 paths, disk, polled,
                 publicFolders>>

\* variant: no inner try/catch, a failed upload reaches the outer catch
UploadFailAborts(r) ==
  /\ pc[r] = "upload"
  /\ CatchError(r)

\* lines 149-152: the upload of files[i] failed (the remote call, or the read
\* stream on a missing temp file); the error is logged and the loop goes on
UploadFail(r) ==
  /\ pc[r] = "upload"
  /\ LoopFrom(r, idx[r] + 1, uploadProgress, disk)
  /\ UNCHANGED <<now, files, uploadId, folder, folderCalls, permCalls,
                 remoteFiles, paths, disk, polled,
                 publicFolders>>

Next ==
  \/ Tick
  \/ \E r \in Reqs, fs \in Batches : MulterReject(r, fs)
  \/ \E r \in Reqs, fs \in Batches : HandlerEmpty(r, fs)
  \/ \E r \in Reqs, fs \in Batches : HandlerStart(r, fs)
  \/ \E r \in Reqs : FolderCreateOk(r)
  \/ \E r \in Reqs : FolderCreateFail(r)
  \/ \E r \in Reqs : PermissionOk(r)
  \/ \E r \in Reqs : PermissionFail(r)
  \/ \E r \in Reqs : UploadOk(r)
  \/ \E r \in Reqs : UploadOkUnlinkThrows(r)
  \/ \E r \in Reqs : UploadFail(r)

Spec == Init /\ [][Next]_vars

\* the remote call request r waits for returns, with either outcome
RemoteReturns(r) ==
  \/ FolderCreateOk(r)
  \/ FolderCreateFail(r)
  \/ PermissionOk(r)
  \/ PermissionFail(r)
  \/ UploadOk(r)
  \/ UploadOkUnlinkThrows(r)
  \/ UploadFail(r)

\* every remote call eventually returns
FairSpec == Spec /\ \A r \in Reqs : WF_vars(RemoteReturns(r))

\* lines 174-180: a client polls the progress of key k
ProgressQuery(k) ==
  /\ polled' = GetProgress(k)
  /\ UNCHANGED <<now, files, pc, uploadId, folder, idx, uploadProgress, resp,
                 folderCalls, permCalls, uploadCalls, remoteFiles, paths, disk,
                 readable,
                 publicFolders>>

NextPoll ==
  \/ Next
  \/ \E k \in Clock : ProgressQuery(k)

\* the upload requests together with clients polling their progress
SpecPoll == Init /\ [][NextPoll]_vars

\* ------------------------------------------------------------ type check
TypeOK ==
  /\ now \in Clock
  /\ files \in [Reqs -> Batches]
  /\ pc \in [Reqs -> {"pending", "rejected", "sent400", "createFolder",
                      "permission", "upload", "sent200", "sent500"}]
  /\ uploadId \in [Reqs -> Clock \cup {NoId}]
  /\ DOMAIN uploadProgress \subseteq Clock
  /\ \A k \in DOMAIN uploadProgress :
       /\ uploadProgress[k].total \in 1..MaxFiles
       /\ uploadProgress[k].completed \in 0..MaxFiles
       /\ uploadProgress[k].folderLink \in Reqs \cup {NullLink}
       /\ uploadProgress[k].status \in {"uploading", "completed"}
  /\ \A r \in Reqs : \A j \in 1..Len(paths[r]) :
       paths[r][j] \in Clock \X Names
  /\ disk \subseteq Clock \X Names
  /\ readable \in [Reqs -> BOOLEAN]
  /\ polled.status \in {0, 200, 404}
  /\ publicFolders \subseteq Reqs

\* --------------------------------------------------------------- claims
\* request r has stored its initial record
Started(r) == pc[r] \in {"createFolder", "permission", "upload",
                         "sent200", "sent500"}

\* the record a poll of r's uploadId reads
Rec(r) == uploadProgress[uploadId[r]]

NumFiles(r) == Len(files[r])

\* every upload call issued so far for r has succeeded, none is in doubt
NoFailureSoFar(r) ==
  /\ pc[r] \in {"createFolder", "permission", "upload", "sent200"}
  /\ remoteFiles[r] = 0..(idx[r] - 1)

\* no other request has stored a record under r's uploadId
Alone(r) ==
  /\ Started(r)
  /\ \A q \in Reqs \ {r} : ~(Started(q) /\ uploadId[q] = uploadId[r])

\* C1: for a request whose provisioning and uploads all succeed, the record
\* under its uploadId has total = N from creation on, and once the request
\* has finished it has completed = N and status 'completed'.
C1_TotalAndFinalRecord ==
  \A r \in Reqs :
    NoFailureSoFar(r) =>
      /\ Rec(r).total = NumFiles(r)
      /\ pc[r] = "sent200" =>
           /\ Rec(r).completed = NumFiles(r)
           /\ Rec(r).status = "completed"

\* C2: every record of the progress store has completed <= total.
C2_CompletedAtMostTotal ==
  \A k \in DOMAIN uploadProgress :
    uploadProgress[k].completed <= uploadProgress[k].total

\* C3: under every key, a status that is 'completed' stays 'completed'.
C3_StatusNeverBackward ==
  [][\A k \in DOMAIN uploadProgress :
       uploadProgress[k].status = "completed" =>
         uploadProgress'[k].status = "completed"]_vars

\* C4: within one request, completed equals the number of files uploaded
\* successfully so far; with exactly one failed file it ends as N - 1.
C4_CompletedCountsSuccesses ==
  \A r \in Reqs :
    Alone(r) =>
      /\ Rec(r).completed = Cardinality(remoteFiles[r])
      /\ (pc[r] = "sent200" /\ Cardinality(remoteFiles[r]) = NumFiles(r) - 1)
           => Rec(r).completed = NumFiles(r) - 1

\* the upload calls of files 0 .. n-1, each once, in order
CallsUpTo(n) == [j \in 1..n |-> j - 1]

C5_State ==
  \A r \in Reqs :
    /\ pc[r] = "upload" => uploadCalls[r] = CallsUpTo(idx[r] + 1)
    /\ pc[r] = "sent500" => uploadCalls[r] = <<>>
    /\ pc[r] = "sent200" =>
         /\ uploadCalls[r] = CallsUpTo(NumFiles(r))
         /\ resp[r].status = 200
         /\ resp[r].success
         /\ resp[r].folderLink = folder[r]
         /\ resp[r].folderLink # NullLink
         /\ resp[r].count = NumFiles(r)

C5_Step ==
  \A r \in Reqs :
    /\ (pc[r] = "upload" /\ pc'[r] # "upload") =>
         /\ pc'[r] = "sent200"
         /\ uploadProgress'[uploadId[r]].status = "completed"
    /\ pc[r] = "upload" => idx'[r] \in {idx[r], idx[r] + 1}

\* C5: a failed file upload never aborts the batch: every file is attempted
\* exactly once, in order, and the request ends with the 200 response that
\* carries the folder link and the count N, the record's status being set
\* to 'completed' when the response is sent.
C5_FailureNeverAborts == []C5_State /\ [][C5_Step]_vars

\* a request answered 200 whose first upload failed and whose second succeeded
C5_Witness ==
  \E r \in Reqs :
    /\ pc[r] = "sent200"
    /\ NumFiles(r) >= 2
    /\ 0 \notin remoteFiles[r]
    /\ 1 \in remoteFiles[r]

C6_State ==
  \A r \in Reqs :
    (pc[r] # "pending" /\ Len(files[r]) = 0) =>
      /\ resp[r].status = 400
      /\ resp[r].json
      /\ folderCalls[r] = 0
      /\ permCalls[r] = 0
      /\ uploadCalls[r] = <<>>

C6_Step ==
  \A r \in Reqs :
    (pc[r] = "pending" /\ pc'[r] # "pending" /\ Len(files'[r]) = 0) =>
      /\ uploadProgress' = uploadProgress
      /\ folderCalls' = folderCalls
      /\ permCalls' = permCalls
      /\ uploadCalls' = uploadCalls

\* C6: a request without files is answered 400, leaves the progress store
\* as it was and issues no remote call.
C6_EmptyBatchRejected == []C6_State /\ [][C6_Step]_vars

\* an empty request was answered while the store holds another request's record
C6_Witness ==
  \E r \in Reqs :
    /\ pc[r] = "sent400"
    /\ uploadProgress # EmptyMap

\* C7: after a failed provisioning the request is answered 500, no file
\* upload was attempted and the record under its uploadId stays 'uploading'
\* with completed = 0.
C7_ProvisioningFailureRecord ==
  \A r \in Reqs :
    pc[r] = "sent500" =>
      /\ resp[r].status = 500
      /\ uploadCalls[r] = <<>>
      /\ Rec(r).status = "uploading"
      /\ Rec(r).completed = 0

\* C8: the record polled with a request's uploadId shows that request's own
\* total, completed, folderLink and status.
C8_RecordsIndependent ==
  \A r \in Reqs :
    Started(r) =>
      /\ Rec(r).total = NumFiles(r)
      /\ Rec(r).completed <= Len(uploadCalls[r])
      /\ Rec(r).completed > 0 => (Rec(r).completed - 1) \in remoteFiles[r]
      /\ Rec(r).folderLink =
           (IF pc[r] \in {"upload", "sent200"} THEN folder[r] ELSE NullLink)
      /\ Rec(r).status =
           (IF pc[r] = "sent200" THEN "completed" ELSE "uploading")

C9_State ==
  \A r \in Reqs :
    Oversized(files[r]) =>
      /\ pc[r] = "rejected"
      /\ folderCalls[r] = 0
      /\ permCalls[r] = 0
      /\ uploadCalls[r] = <<>>

C9_Step ==
  \A r \in Reqs :
    (pc[r] = "pending" /\ pc'[r] # "pending" /\ Oversized(files'[r])) =>
      uploadProgress' = uploadProgress

\* C9: a request with a file over the size limit is rejected before the
\* handler runs: it issues no remote call and no record is stored for it.
C9_OversizedBeforeHandler == []C9_State /\ [][C9_Step]_vars

\* an oversized request was rejected while another request made remote calls
C9_Witness ==
  \E r, q \in Reqs :
    /\ pc[r] = "rejected"
    /\ Len(files[r]) >= 2
    /\ ~ExceedsLimit(files[r][1])
    /\ folderCalls[q] > 0

\* C10: a request with a file over the size limit is answered with a 4xx
\* status and a JSON error body.
C10_OversizedClientError ==
  \A r \in Reqs :
    (Oversized(files[r]) /\ pc[r] # "pending") =>
      /\ resp[r].status \in 400..499
      /\ resp[r].json

C11_Step ==
  polled' # polled =>
    /\ uploadProgress' = uploadProgress
    /\ polled'.status = 404 <=> ~MapHas(uploadProgress, polled'.id)
    /\ polled'.status = 404 =>
         /\ polled'.error = "Upload not found"
         /\ polled'.record = NoRecord
    /\ MapHas(uploadProgress, polled'.id) =>
         /\ polled'.status = 200
         /\ polled'.record = uploadProgress[polled'.id]

\* C11: the progress query answers 404 'Upload not found' exactly when no
\* record is stored under the identifier, otherwise 200 with the stored
\* record, and leaves the progress store unchanged.
C11_PureLookup == [][C11_Step]_vars

\* a poll was answered 200 with the record of an upload still in progress,
\* some file of which is already counted
C11_Witness ==
  /\ polled.status = 200
  /\ polled.record.completed > 0
  /\ polled.record.status = "uploading"

\* the temp copy of file i of request r is on disk
TempCopyOnDisk(r, i) == paths[r][i + 1] \in disk

C12_State ==
  \A r \in Reqs :
    pc[r] \in {"sent200", "sent500"} =>
      {i \in 0..(NumFiles(r) - 1) : TempCopyOnDisk(r, i)}
        = (0..(NumFiles(r) - 1)) \ remoteFiles[r]

C12_Step ==
  \A r \in Reqs : \A i \in 0..(Len(paths[r]) - 1) :
    (paths[r][i + 1] \in disk /\ paths[r][i + 1] \notin disk') =>
      i \in remoteFiles'[r]

\* C12: a temp copy is deleted exactly when its upload succeeded: after a
\* request has finished, the temp files of its batch still on disk are those
\* whose upload failed, and no temp file is deleted before its upload has
\* returned successfully.
C12_TempDeletedOnSuccessOnly == []C12_State /\ [][C12_Step]_vars

\* the upload calls of r that have returned: one per finished loop iteration
Returned(r) == idx[r]

\* the upload calls of r issued and not yet returned
InFlight(r) == Len(uploadCalls[r]) - Returned(r)

C13_State ==
  \A r \in Reqs :
    /\ InFlight(r) \in {0, 1}
    /\ InFlight(r) = 1 <=> pc[r] = "upload"
    /\ \A j \in 1..Len(uploadCalls[r]) : uploadCalls[r][j] = j - 1

C13_Step ==
  \A r \in Reqs :
    uploadCalls'[r] # uploadCalls[r] =>
      /\ uploadCalls'[r] = Append(uploadCalls[r], Len(uploadCalls[r]))
      /\ Returned(r)' = Len(uploadCalls[r])

\* C13: the uploads of a batch are strictly sequential: at most one upload
\* call of a request is in flight, and the call for the next file is issued
\* only when the call for the file before it has returned, in batch order.
C13_SequentialUploads == []C13_State /\ [][C13_Step]_vars

\* the second upload of a batch is in flight after the first has returned
C13_Witness ==
  \E r \in Reqs :
    /\ pc[r] = "upload"
    /\ Returned(r) = 1
    /\ uploadCalls[r] = <<0, 1>>

\* request r waits for a remote call
Waiting(r) == pc[r] \in {"createFolder", "permission", "upload"}

\* C14: if every remote call eventually returns, every request with a
\* non-empty batch eventually sends a response, and once its provisioning
\* has succeeded the record under its uploadId eventually has status
\* 'completed', whatever number of its uploads fail.
C14_EventuallyResponds ==
  \A r \in Reqs :
    /\ Waiting(r) ~> (~Waiting(r) /\ resp[r].status \in {200, 500})
    /\ (pc[r] = "upload") ~>
         (resp[r].status = 200 /\ Rec(r).status = "completed")

\* a request whose uploads all failed has answered and its record is completed
C14_Witness ==
  \E r \in Reqs :
    /\ pc[r] = "sent200"
    /\ remoteFiles[r] = {}
    /\ Rec(r).status = "completed"

C15_Step ==
  \A r \in Reqs :
    (Waiting(r) /\ pc'[r] = pc[r] /\ idx'[r] = idx[r]) =>
      /\ Rec(r)'.completed = Rec(r).completed
      /\ resp'[r] = resp[r]

C15_State ==
  \A r \in Reqs :
    Waiting(r) =>
      /\ Rec(r).status = "uploading"
      /\ resp[r] = NoResp
      /\ \A q \in Reqs \ {r} : Waiting(q) => ENABLED RemoteReturns(q)

\* C15: while a remote call of a request has not returned, the record under
\* that request's uploadId keeps its status and completed count and no
\* response is sent for it, and the other requests can still take their steps.
C15_HungCallStallsOnlyItself == []C15_State /\ [][C15_Step]_vars

C16_Step ==
  \A k \in DOMAIN uploadProgress :
    /\ k \in DOMAIN uploadProgress'
    /\ (polled' # polled /\ polled'.id = k) => polled'.status = 200

\* C16: no record is ever removed from the progress store: its set of keys
\* only grows, and a progress query for a key that has a record is answered
\* 200, never 404.
C16_RecordsNeverRemoved ==
  [](polled.status = 200 => MapHas(uploadProgress, polled.id))
    /\ [][C16_Step]_vars

\* a request failed with 500 and a poll of its uploadId was answered 200
C16_Witness ==
  \E r \in Reqs :
    /\ pc[r] = "sent500"
    /\ polled.id = uploadId[r]
    /\ polled.status = 200
    /\ polled.record.status = "uploading"

C17_State ==
  \A r \in Reqs :
    /\ folderCalls[r] <= 1
    /\ permCalls[r] <= 1
    /\ permCalls[r] = 1 => (folderCalls[r] = 1 /\ folder[r] # NullLink)
    /\ uploadCalls[r] # <<>> =>
         /\ folderCalls[r] = 1
         /\ permCalls[r] = 1
         /\ folder[r] # NullLink
         /\ folder[r] \in publicFolders

C17_Step ==
  \A r \in Reqs :
    /\ folderCalls'[r] # folderCalls[r] =>
         (permCalls[r] = 0 /\ uploadCalls'[r] = <<>>)
    /\ permCalls'[r] # permCalls[r] => uploadCalls'[r] = <<>>

\* C17: within a request the remote calls are ordered: folder creation, then
\* the permission grant, then the file uploads; no upload is issued before
\* both provisioning calls have succeeded and each of the two is issued at
\* most once.
C17_ProvisioningBeforeUploads == []C17_State /\ [][C17_Step]_vars

\* an upload is in flight for a request whose folder was created and made public
C17_Witness ==
  \E r \in Reqs :
    /\ pc[r] = "upload"
    /\ folderCalls[r] = 1
    /\ permCalls[r] = 1
    /\ folder[r] \in publicFolders

\* C18: a record's folderLink is null until the provisioning of its request
\* has succeeded and is the folder's link from then on; so every record with
\* status 'completed' or with completed > 0 has a folderLink.
C18_FolderLinkFollowsProvisioning ==
  /\ \A r \in Reqs :
       Started(r) =>
         Rec(r).folderLink =
           (IF folder[r] \in publicFolders THEN folder[r] ELSE NullLink)
  /\ \A k \in DOMAIN uploadProgress :
       (uploadProgress[k].status = "completed" \/ uploadProgress[k].completed > 0)
         => uploadProgress[k].folderLink # NullLink

\* C19: from the moment the 200 response with uploadId u is sent, the record
\* under u has status 'completed' and the folderLink of that response.
C19_RecordMatchesResponse ==
  \A r \in Reqs :
    resp[r].status = 200 =>
      /\ MapHas(uploadProgress, resp[r].uploadId)
      /\ uploadProgress[resp[r].uploadId].status = "completed"
      /\ uploadProgress[resp[r].uploadId].folderLink = resp[r].folderLink

====
